---------------------------- MODULE Spec2Model ----------------------------
(***************************************************************************)
(* Model of the RAG chatbot service: the startup handler that builds the   *)
(* in-memory corpus (main.py), the /ask, /health and /stats handlers       *)
(* (main.py), the orchestrator rag and compute_confidence (rag_graph.py),  *)
(* retrieve and the lazily built embeddings client (retriever.py) and the  *)
(* lazily built llm client (generator.py).                                 *)
(*                                                                         *)
(* Representation.                                                         *)
(*  - Python None is None == <<>>, any other value v is Some(v) == <<v>>.  *)
(*  - A document is identified by its position in the loaded list.         *)
(*  - Similarity scores and confidences are fixed-point, in hundredths.    *)
(*  - An embedding row is represented by its cosine similarity to the      *)
(*    embedding of the (single) non-blank question of the model, so        *)
(*    DOC_EMBEDDINGS = Some(<<s1, ..., sm>>) is an m-row matrix.           *)
(*  - Sequences are 1-based: Python index i is position i + 1.             *)
(***************************************************************************)
EXTENDS Integers, Sequences, FiniteSets, TLC

VARIABLES phase, startup_outcome, docs_txt, DOCUMENTS, DOC_EMBEDDINGS,
          embeddings_model, llm, requests, call, ret, conf

vars == <<phase, startup_outcome, docs_txt, DOCUMENTS, DOC_EMBEDDINGS,
          embeddings_model, llm, requests, call, ret, conf>>

service_vars == <<phase, startup_outcome, docs_txt, DOCUMENTS, DOC_EMBEDDINGS,
                  embeddings_model, llm, requests>>

(***************************************************************************)
(* Bounds.                                                                 *)
(***************************************************************************)
\* documents the two startup loaders return together
MaxDocs == 2
\* request slots: /ask, /health and /stats handlers running at once
MaxReq == 2
\* corpus size in the direct calls of retrieve
MaxCorpus == 3
\* length of the score list in the direct calls of compute_confidence
MaxScores == 3

\* QuestionRequest.k default
DefaultK == 2

None == <<>>
Some(x) == <<x>>

\* bool(x) of an optional list: None and [] are falsy
Truthy(opt) == opt # None /\ opt[1] # <<>>

Requests == 1..MaxReq

\* cosine similarities (hundredths) of the question with a corpus row
SimValues == {-50, 50, 100}
\* score values (hundredths) for the direct calls of compute_confidence
ConfValues == {-500, -25, 0, 25, 50, 70, 100, 150}
\* payload.k of a request
KValues == -1..DefaultK
\* payload.k where handlers run on several threads
ThreadKValues == {DefaultK}
\* payload.question: empty, whitespace only, and a real question
Questions == {<<>>, <<" ", " ">>, <<"q", " ">>}

RECURSIVE lstrip(_)
lstrip(s) == IF s # <<>> /\ Head(s) = " " THEN lstrip(Tail(s)) ELSE s

Reverse(s) == [i \in 1..Len(s) |-> s[Len(s) + 1 - i]]

\* str.strip(): leading and trailing whitespace removed
strip(s) == Reverse(lstrip(Reverse(lstrip(s))))

\* "not payload.question or not payload.question.strip()"
blank(question) == question = <<>> \/ strip(question) = <<>>

SeqsUpTo(S, n) == UNION {[1..m -> S] : m \in 0..n}

\* the matrices embed_documents may return at startup
Matrices == SeqsUpTo(SimValues, MaxDocs + 1)
\* and where handlers run on several threads: rows of distinct similarity
ThreadMatrices == {[i \in 1..m |-> 100 - 10 * i] : m \in 0..(MaxDocs + 1)}


(***************************************************************************)
(* retriever.py: retrieve                                                  *)
(***************************************************************************)
Raised(e) == [raised |-> e, top_docs |-> <<>>, top_scores |-> <<>>]
Returned(docs, scores) == [raised |-> "", top_docs |-> docs, top_scores |-> scores]

\* scores.argsort(): a permutation of the indices that lists the scores in
\* ascending order.  The default kind ("quicksort") is not a stable sort, so
\* the order among equal scores is any the build produces.
argsort(scores) ==
    LET m == Len(scores)
    IN  {p \in [1..m -> 1..m] :
            /\ \A i, j \in 1..m : i # j => p[i] # p[j]
            /\ \A i \in 1..(m - 1) : scores[p[i]] <= scores[p[i + 1]]}

\* The Python slice p[-k:].  A negative start -k counts from the end and is
\* clipped to 0; a start -k >= 0 (k <= 0) counts from the front and is
\* clipped to len(p); so p[-0:] is all of p.
SliceLast(p, k) ==
    LET m == Len(p)
        start == IF -k < 0
                 THEN (IF m - k < 0 THEN 0 ELSE m - k)
                 ELSE (IF -k > m THEN m ELSE -k)
    IN  SubSeq(p, start + 1, m)

\* top_idx = scores.argsort()[-k:][::-1]
top_idx_of(scores, k) == {Reverse(SliceLast(p, k)) : p \in argsort(scores)}

\* cosine_similarity(query_vector, doc_embeddings)[0]: sklearn's input check
\* rejects None and an array without rows; else one score per row.
cosine_similarity(doc_embeddings) ==
    IF doc_embeddings = None \/ doc_embeddings[1] = <<>>
    THEN None
    ELSE Some(doc_embeddings[1])

\* retriever.py lines 33-40, after the query is embedded: the possible results.
\* documents[i] raises IndexError for a row index beyond the document list.
rank(documents, doc_embeddings, k) ==
    LET cs == cosine_similarity(doc_embeddings)
    IN  IF cs = None
        THEN {Raised("ValueError")}
        ELSE LET scores == cs[1]
             IN  {IF \E i \in 1..Len(top_idx) : top_idx[i] > Len(documents)
                  THEN Raised("IndexError")
                  ELSE Returned([i \in 1..Len(top_idx) |-> documents[top_idx[i]]],
                                [i \in 1..Len(top_idx) |-> scores[top_idx[i]]])
                  : top_idx \in top_idx_of(scores, k)}

\* retrieve(query, documents, doc_embeddings, k): embed_query may fail.
retrieve(documents, doc_embeddings, k) ==
    {Raised("EmbeddingProviderError")} \cup rank(documents, doc_embeddings, k)

(***************************************************************************)
(* rag_graph.py: compute_confidence                                        *)
(***************************************************************************)
RECURSIVE sum(_)
sum(s) == IF s = <<>> THEN 0 ELSE Head(s) + sum(Tail(s))

\* round(num/den, 2) for num/den >= 0 in hundredths.  Off a decimal tie the
\* nearest hundredth; on a tie the float's binary representation decides
\* (round(0.015, 2) is 0.01, round(0.025, 2) is 0.03), so either neighbour.
round2(num, den) ==
    LET q == num \div den
        rem == num % den
    IN  IF 2 * rem < den THEN {q}
        ELSE IF 2 * rem > den THEN {q + 1}
        ELSE {q, q + 1}

\* max(0.0, min(1.0, avg_score)) with avg_score = total/n, as the numerator
\* over the same denominator n
clamp(total, n) ==
    LET upper == IF total > 100 * n THEN 100 * n ELSE total
    IN  IF upper < 0 THEN 0 ELSE upper

\* the clamp left out
compute_confidence_noclamp(sim_scores) ==
    IF sim_scores = <<>>
    THEN {0}
    ELSE round2(sum(sim_scores), Len(sim_scores))

\* The possible results, in hundredths.
compute_confidence(sim_scores) ==
    IF sim_scores = <<>>
    THEN {0}
    ELSE round2(clamp(sum(sim_scores), Len(sim_scores)), Len(sim_scores))

(***************************************************************************)
(* main.py: responses and request slots                                    *)
(***************************************************************************)
NoResponse == [status |-> 0, answer |-> "", contexts |-> <<>>, confidence |-> 0]

IdleRequest ==
    [pc |-> "idle", route |-> "", question |-> <<>>, k |-> 0,
     retrieved_docs |-> <<>>, sim_scores |-> <<>>, llm_seen |-> None,
     calls |-> {}, failed |-> "", response |-> NoResponse]

\* lines 125-131
not_loaded_response ==
    [status |-> 200,
     answer |-> "Error: Documents not loaded. Check your .env file and ensure OPENAI_API_KEY is set.",
     contexts |-> <<>>, confidence |-> 0]

\* lines 134-140
invalid_question_response ==
    [status |-> 200, answer |-> "Please provide a valid question.",
     contexts |-> <<>>, confidence |-> 0]

\* an exception that leaves a handler: the framework answers 500
unhandled_response(e) ==
    [status |-> 500, answer |-> "Internal Server Error",
     contexts |-> <<>>, confidence |-> 0]

\* the except clause raising e again instead of answering
error_response_reraised(e) == unhandled_response(e)

\* lines 158-165: "except Exception as e" of ask_question
error_response(e) ==
    [status |-> 200, answer |-> "Error processing question: " \o e,
     contexts |-> <<>>, confidence |-> 0]

\* lines 151-157
answer_response(answer, contexts, confidence) ==
    [status |-> 200, answer |-> answer, contexts |-> contexts,
     confidence |-> confidence]

\* "if DOCUMENTS is not None" in place of "if not DOCUMENTS"
documents_missing_none_only(documents) == documents = None

\* line 124: "if not DOCUMENTS"
documents_missing(documents) == ~Truthy(documents)

\* the strip() test left out
question_invalid_nostrip(question) == question = <<>>

\* line 133
question_invalid(question) == blank(question)

\* the "llm is None" test left out: always construct
llm_is_none_always(seen) == TRUE

\* generator.py line 11: "if llm is None"
llm_is_none(seen) == seen = None

\* the handler of startup_event without the reset of DOCUMENTS
startup_except_noreset(documents) == <<documents, None>>

\* lines 63-67: the new <<DOCUMENTS, DOC_EMBEDDINGS>>
startup_except(documents) == <<Some(<<>>), None>>

\* the handler returns resp: its locals are gone, the calls it made are kept
responded(req, resp) ==
    [IdleRequest EXCEPT !.pc = "responded", !.route = req.route,
                        !.question = req.question, !.k = req.k,
                        !.calls = req.calls, !.failed = req.failed,
                        !.response = resp]

\* exception e leaves rag and is handled by the except clause of ask_question
raised_in_rag(req, e) == responded([req EXCEPT !.failed = e], error_response(e))

called(req, fn) == [req EXCEPT !.calls = @ \cup {fn}]

(***************************************************************************)
(* main.py: startup_event.  The server accepts no request before the       *)
(* handler has returned, so requests are served in phase "serving" only.   *)
(***************************************************************************)
request_unchanged == UNCHANGED <<llm, requests, call, ret, conf>>

\* the except clause of startup_event, entered from `stage`
startup_failed(stage) ==
    /\ DOCUMENTS' = startup_except(DOCUMENTS)[1]
    /\ DOC_EMBEDDINGS' = startup_except(DOCUMENTS)[2]
    /\ startup_outcome' = stage
    /\ phase' = "serving"

\* line 58: docs_txt = load_txt("data/input.txt")
startup_load_txt ==
    /\ phase = "import"
    /\ \E ok \in BOOLEAN, n \in 0..MaxDocs :
          IF ok
          THEN /\ docs_txt' = [i \in 1..n |-> i]
               /\ phase' = "load_pdf"
               /\ UNCHANGED <<startup_outcome, DOCUMENTS, DOC_EMBEDDINGS>>
          ELSE /\ n = 0
               /\ startup_failed("load_txt failed")
               /\ UNCHANGED docs_txt
    /\ UNCHANGED embeddings_model
    /\ request_unchanged

\* lines 59-60: docs_pdf = load_pdf("data/doc.pdf"); DOCUMENTS = docs_txt + docs_pdf
startup_load_pdf ==
    /\ phase = "load_pdf"
    /\ \E ok \in BOOLEAN, n \in 0..(MaxDocs - Len(docs_txt)) :
          IF ok
          THEN /\ DOCUMENTS' = Some(docs_txt \o [i \in 1..n |-> Len(docs_txt) + i])
               /\ phase' = "embed_texts"
               /\ UNCHANGED <<startup_outcome, DOC_EMBEDDINGS>>
          ELSE /\ n = 0
               /\ startup_failed("load_pdf failed")
    /\ UNCHANGED <<docs_txt, embeddings_model>>
    /\ request_unchanged

\* the numbers of vectors embed_documents may return for n texts: no texts
\* make no provider call and give no vector
VectorCounts(n) == IF n = 0 THEN {0} ELSE (n - 1)..(n + 1)

\* line 61: DOC_EMBEDDINGS = embed_texts(DOCUMENTS).  get_embeddings_model
\* builds and caches the client (its constructor may raise), embed_documents
\* may raise or return one vector fewer or more than it was given texts, and
\* np.array keeps what it returned.
startup_embed_texts(Provided) ==
    /\ phase = "embed_texts"
    /\ \E built \in BOOLEAN, ok \in BOOLEAN, rows \in Provided :
          /\ embeddings_model' = IF embeddings_model = None /\ built
                                 THEN Some("OpenAIEmbeddings")
                                 ELSE embeddings_model
          /\ IF embeddings_model' # None /\ ok
             THEN /\ Len(rows) \in VectorCounts(Len(DOCUMENTS[1]))
                  /\ DOC_EMBEDDINGS' = Some(rows)
                  /\ startup_outcome' = "ok"
                  /\ phase' = "serving"
                  /\ UNCHANGED DOCUMENTS
             ELSE /\ rows = <<>>
                  /\ startup_failed("embed_texts failed")
    /\ UNCHANGED docs_txt
    /\ request_unchanged

\* The application serving without its startup event having run (the module
\* state of lines 48-49): DOCUMENTS and DOC_EMBEDDINGS are still None.
serve_without_startup ==
    /\ phase = "import"
    /\ phase' = "serving"
    /\ startup_outcome' = "not run"
    /\ UNCHANGED <<docs_txt, DOCUMENTS, DOC_EMBEDDINGS, embeddings_model>>
    /\ request_unchanged

(***************************************************************************)
(* main.py: the request handlers.  The def handlers run on the server's    *)
(* thread pool, so the steps of different requests interleave; a handler   *)
(* is cut where it waits for a provider.                                   *)
(***************************************************************************)
startup_unchanged ==
    UNCHANGED <<phase, startup_outcome, docs_txt, DOCUMENTS, DOC_EMBEDDINGS,
                call, ret, conf>>

\* lines 109-149: ask_question up to the call of rag
ask_question(r, question, k) ==
    /\ phase = "serving"
    /\ requests[r].pc = "idle"
    /\ LET req == [IdleRequest EXCEPT !.route = "/ask", !.question = question,
                                      !.k = k]
       IN  requests' = [requests EXCEPT ![r] =
              IF documents_missing(DOCUMENTS)
              THEN responded(req, not_loaded_response)
              ELSE IF question_invalid(question)
              THEN responded(req, invalid_question_response)
              ELSE [req EXCEPT !.pc = "retrieve"]]
    /\ UNCHANGED <<embeddings_model, llm>>
    /\ startup_unchanged

\* rag_graph.py line 19 to generator.py line 11: retrieve (get_embeddings_model,
\* embed_query, the ranking), the context, and get_llm's test of llm
rag_retrieve(r) ==
    /\ requests[r].pc = "retrieve"
    /\ \E built \in BOOLEAN :
          /\ embeddings_model' = IF embeddings_model = None /\ built
                                 THEN Some("OpenAIEmbeddings")
                                 ELSE embeddings_model
          /\ IF embeddings_model' = None
             THEN requests' = [requests EXCEPT ![r] =
                     raised_in_rag(@, "EmbeddingProviderError")]
             ELSE \E res \in retrieve(DOCUMENTS[1], DOC_EMBEDDINGS, requests[r].k) :
                     requests' = [requests EXCEPT ![r] =
                        IF res.raised # ""
                        THEN raised_in_rag(called(@, "embed_query"), res.raised)
                        ELSE [called(@, "embed_query") EXCEPT
                                 !.pc = IF llm_is_none(llm) THEN "get_llm"
                                        ELSE "invoke",
                                 !.retrieved_docs = res.top_docs,
                                 !.sim_scores = res.top_scores,
                                 !.llm_seen = IF llm_is_none(llm) THEN llm
                                              ELSE None]]
    /\ UNCHANGED llm
    /\ startup_unchanged

\* generator.py line 12: llm = ChatOpenAI(model="gpt-4o"); the constructor may
\* raise.  The client is identified by the request that built it.
get_llm(r) ==
    /\ requests[r].pc = "get_llm"
    /\ \E built \in BOOLEAN :
          IF built
          THEN /\ llm' = Some(r)
               /\ requests' = [requests EXCEPT ![r].pc = "invoke",
                                               ![r].llm_seen = None]
          ELSE /\ requests' = [requests EXCEPT ![r] =
                     raised_in_rag(@, "GenerationError")]
               /\ UNCHANGED llm
    /\ UNCHANGED embeddings_model
    /\ startup_unchanged

\* generator.py lines 27-31 and rag_graph.py lines 24-26: llm.invoke, then
\* compute_confidence and the response of lines 151-157
generate_answer(r) ==
    /\ requests[r].pc = "invoke"
    /\ \E ok \in BOOLEAN, confidence \in compute_confidence(requests[r].sim_scores) :
          requests' = [requests EXCEPT ![r] =
             IF ok
             THEN responded(called(@, "llm.invoke"),
                            answer_response("res.content",
                                            requests[r].retrieved_docs,
                                            confidence))
             ELSE raised_in_rag(called(@, "llm.invoke"), "GenerationError")]
    /\ UNCHANGED <<embeddings_model, llm>>
    /\ startup_unchanged

\* lines 98-105
health_check(r) ==
    /\ phase = "serving"
    /\ requests[r].pc = "idle"
    /\ requests' = [requests EXCEPT ![r] =
          [IdleRequest EXCEPT !.route = "/health", !.pc = "responded",
              !.response = [status |-> 200,
                            answer |-> IF Truthy(DOCUMENTS) THEN "healthy"
                                       ELSE "documents_not_loaded",
                            contexts |-> <<>>, confidence |-> 0]]]
    /\ UNCHANGED <<embeddings_model, llm>>
    /\ startup_unchanged

\* lines 169-175: DOC_EMBEDDINGS.shape[1] raises for an array without rows
get_stats(r) ==
    /\ phase = "serving"
    /\ requests[r].pc = "idle"
    /\ requests' = [requests EXCEPT ![r] =
          [IdleRequest EXCEPT !.route = "/stats", !.pc = "responded",
              !.response = IF DOC_EMBEDDINGS # None /\ DOC_EMBEDDINGS[1] = <<>>
                           THEN unhandled_response("IndexError")
                           ELSE [status |-> 200, answer |-> "stats",
                                 contexts |-> <<>>, confidence |-> 0]]]
    /\ UNCHANGED <<embeddings_model, llm>>
    /\ startup_unchanged

\* the response is sent and the handler's thread is free again
send_response(r) ==
    /\ requests[r].pc = "responded"
    /\ requests' = [requests EXCEPT ![r] = IdleRequest]
    /\ UNCHANGED <<embeddings_model, llm>>
    /\ startup_unchanged

Init ==
    /\ phase = "import"
    /\ startup_outcome = "pending"
    /\ docs_txt = <<>>
    /\ DOCUMENTS = None
    /\ DOC_EMBEDDINGS = None
    /\ embeddings_model = None
    /\ llm = None
    /\ requests = [r \in Requests |-> IdleRequest]
    /\ call = [fn |-> "", documents |-> <<>>, doc_embeddings |-> None,
               k |-> 0, sim_scores |-> <<>>, done |-> FALSE]
    /\ ret = Raised("")
    /\ conf = 0

\* no handler is running
quiet == \A r \in Requests : requests[r].pc = "idle"

steps ==
    \/ \E r \in Requests : rag_retrieve(r)
    \/ \E r \in Requests : get_llm(r)
    \/ \E r \in Requests : generate_answer(r)
    \/ \E r \in Requests : send_response(r)

\* The service handling one request at a time, over all the inputs.
Next ==
    \/ startup_load_txt
    \/ startup_load_pdf
    \/ startup_embed_texts(Matrices)
    \/ serve_without_startup
    \/ \E r \in Requests, question \in Questions, k \in KValues :
          quiet /\ ask_question(r, question, k)
    \/ \E r \in Requests : quiet /\ health_check(r)
    \/ \E r \in Requests : quiet /\ get_stats(r)
    \/ steps

Spec == Init /\ [][Next]_vars

\* The service with its handlers running on MaxReq threads.
NextThreads ==
    \/ startup_load_txt
    \/ startup_load_pdf
    \/ startup_embed_texts(ThreadMatrices)
    \/ serve_without_startup
    \/ \E r \in Requests, question \in Questions, k \in ThreadKValues :
          ask_question(r, question, k)
    \/ \E r \in Requests : health_check(r)
    \/ \E r \in Requests : get_stats(r)
    \/ steps

SpecThreads == Init /\ [][NextThreads]_vars

(***************************************************************************)
(* Direct calls of the two pure functions, over bounded inputs.            *)
(***************************************************************************)
function_unchanged == UNCHANGED service_vars

\* retrieve on an aligned corpus of n documents; np.array([]) for n = 0
RetrieveCalls ==
    {[fn |-> "retrieve", documents |-> [i \in 1..Len(rows) |-> i],
      doc_embeddings |-> Some(rows), k |-> k, sim_scores |-> <<>>,
      done |-> FALSE] :
        rows \in SeqsUpTo(SimValues, MaxCorpus),
        k \in (-(MaxCorpus + 1))..(MaxCorpus + 1)}

ConfidenceCalls ==
    {[fn |-> "compute_confidence", documents |-> <<>>, doc_embeddings |-> None,
      k |-> 0, sim_scores |-> scores, done |-> FALSE] :
        scores \in SeqsUpTo(ConfValues, MaxScores)}

InitRetrieve ==
    /\ phase = "import"
    /\ startup_outcome = "pending"
    /\ docs_txt = <<>>
    /\ DOCUMENTS = None
    /\ DOC_EMBEDDINGS = None
    /\ embeddings_model = None
    /\ llm = None
    /\ requests = [r \in Requests |-> IdleRequest]
    /\ call \in RetrieveCalls
    /\ ret = Raised("")
    /\ conf = 0

call_retrieve ==
    /\ call.fn = "retrieve"
    /\ ~call.done
    /\ ret' \in retrieve(call.documents, call.doc_embeddings, call.k)
    /\ call' = [call EXCEPT !.done = TRUE]
    /\ UNCHANGED conf
    /\ function_unchanged

SpecRetrieve == InitRetrieve /\ [][call_retrieve]_vars

InitConfidence ==
    /\ phase = "import"
    /\ startup_outcome = "pending"
    /\ docs_txt = <<>>
    /\ DOCUMENTS = None
    /\ DOC_EMBEDDINGS = None
    /\ embeddings_model = None
    /\ llm = None
    /\ requests = [r \in Requests |-> IdleRequest]
    /\ call \in ConfidenceCalls
    /\ ret = Raised("")
    /\ conf = 0

call_compute_confidence ==
    /\ call.fn = "compute_confidence"
    /\ ~call.done
    /\ conf' \in compute_confidence(call.sim_scores)
    /\ call' = [call EXCEPT !.done = TRUE]
    /\ UNCHANGED ret
    /\ function_unchanged

SpecConfidence == InitConfidence /\ [][call_compute_confidence]_vars

(***************************************************************************)
(* Properties.                                                             *)
(***************************************************************************)
AskResponded(r) == requests[r].pc = "responded" /\ requests[r].route = "/ask"

InRag(r) == requests[r].pc \in {"retrieve", "get_llm", "invoke"}

AllSpaces(question) == \A i \in 1..Len(question) : question[i] = " "

ErrorAnswers ==
    {"Error processing question: " \o e :
        e \in {"EmbeddingProviderError", "ValueError", "IndexError",
               "GenerationError"}}

\* C1: an /ask request in which the embedding call, the ranking step or the
\* answer generation raised ends with a status-200 response whose answer is an
\* error message, whose confidence is 0.0 and whose contexts are empty; and no
\* /ask request ends with an unhandled error.
C1_PipelineFailuresAnswered ==
    \A r \in Requests :
        AskResponded(r) =>
            /\ requests[r].response.status = 200
            /\ requests[r].failed # "" =>
                  /\ requests[r].response.answer \in ErrorAnswers
                  /\ requests[r].response.confidence = 0
                  /\ requests[r].response.contexts = <<>>

C1_Witness ==
    \E r \in Requests :
        /\ AskResponded(r)
        /\ requests[r].failed = "IndexError"
        /\ startup_outcome = "ok"

\* C2: an /ask request whose question is empty or only whitespace is answered
\* with confidence 0.0 and no contexts in every corpus state, and neither the
\* embedding provider nor the language model is called while handling it.
C2_BlankQuestionRejected ==
    \A r \in Requests :
        (requests[r].route = "/ask" /\ AllSpaces(requests[r].question)) =>
            /\ requests[r].pc = "responded"
            /\ requests[r].calls = {}
            /\ requests[r].response.status = 200
            /\ requests[r].response.confidence = 0
            /\ requests[r].response.contexts = <<>>

C2_Witness ==
    \E r \in Requests :
        /\ AskResponded(r)
        /\ requests[r].question = <<" ", " ">>
        /\ Truthy(DOCUMENTS)
        /\ DOC_EMBEDDINGS # None

\* C3: an /ask request with k = 0, a non-blank question and a loaded non-empty
\* corpus is answered with no contexts and confidence 0.0, and the answer
\* generator is not invoked during it.
C3_ZeroKSkipsGeneration ==
    \A r \in Requests :
        (/\ requests[r].route = "/ask"
         /\ requests[r].k = 0
         /\ ~AllSpaces(requests[r].question)
         /\ Truthy(DOCUMENTS)) =>
            /\ "llm.invoke" \notin requests[r].calls
            /\ requests[r].pc \notin {"get_llm", "invoke"}
            /\ requests[r].pc = "responded" =>
                  /\ requests[r].response.contexts = <<>>
                  /\ requests[r].response.confidence = 0

Min(a, b) == IF a < b THEN a ELSE b
Max(a, b) == IF a > b THEN a ELSE b

\* C4: for a corpus of n >= 0 documents and any integer k the ranking step of
\* retrieve returns exactly min(max(k, 0), n) documents and as many scores.
C4_ResultLength ==
    (call.fn = "retrieve" /\ call.done /\ ret.raised # "EmbeddingProviderError") =>
        /\ ret.raised = ""
        /\ Len(ret.top_docs) = Min(Max(call.k, 0), Len(call.documents))
        /\ Len(ret.top_scores) = Len(ret.top_docs)

\* C5: for k >= 1 the results of retrieve are the k highest-scoring documents
\* in non-increasing score order, and of two documents with equal scores the
\* one with the smaller corpus index is selected first and listed first.
C5_TopKTiesBySmallerIndex ==
    (call.fn = "retrieve" /\ call.done /\ ret.raised = "" /\ call.k >= 1) =>
        LET scores == call.doc_embeddings[1]
            top == ret.top_docs
            Before(d, e) == scores[d] > scores[e] \/ (scores[d] = scores[e] /\ d < e)
        IN  /\ Len(top) = Min(call.k, Len(scores))
            /\ \A i \in 1..Len(top) : ret.top_scores[i] = scores[top[i]]
            /\ \A i, j \in 1..Len(top) : i < j => Before(top[i], top[j])
            /\ \A i \in 1..Len(top) :
                  \A d \in 1..Len(scores) :
                      (\A j \in 1..Len(top) : top[j] # d) => Before(top[i], d)

\* C6: compute_confidence returns 0.0 for the empty sequence and otherwise the
\* mean of the scores clamped to [0,1] and rounded to 2 decimal places, always
\* within [0,1]; [1.0,1.0] gives 1.0, [-5.0] gives 0.0, [0.5,0.7] gives 0.6.
C6_ConfidenceIsClampedRoundedMean ==
    (call.fn = "compute_confidence" /\ call.done) =>
        LET n == Len(call.sim_scores)
            total == sum(call.sim_scores)
            clamped == Max(0, Min(100 * n, total))
            distance == IF conf * n > clamped THEN conf * n - clamped
                        ELSE clamped - conf * n
        IN  /\ conf \in 0..100
            /\ n = 0 => conf = 0
            /\ n > 0 => 2 * distance <= n
            /\ call.sim_scores = <<100, 100>> => conf = 100
            /\ call.sim_scores = <<-500>> => conf = 0
            /\ call.sim_scores = <<50, 70>> => conf = 60

C6_Witness ==
    /\ call.fn = "compute_confidence"
    /\ call.done
    /\ call.sim_scores = <<150, 150, 25>>
    /\ conf = 100

StartupFailures == {"load_txt failed", "load_pdf failed", "embed_texts failed"}

\* C7: when a step of startup fails (load_txt, load_pdf or embed_texts, also
\* after DOCUMENTS was assigned) startup_event returns normally and the corpus
\* is empty: DOCUMENTS is [] and DOC_EMBEDDINGS is None in every state in
\* which requests are served.
C7_FailedStartupLeavesEmptyCorpus ==
    startup_outcome \in StartupFailures =>
        /\ phase = "serving"
        /\ DOCUMENTS = Some(<<>>)
        /\ DOC_EMBEDDINGS = None

C7_Witness ==
    /\ startup_outcome = "embed_texts failed"
    /\ embeddings_model # None
    /\ docs_txt # <<>>
    /\ \E r \in Requests : AskResponded(r)

\* C8: rag runs only while DOCUMENTS is a non-empty list and DOC_EMBEDDINGS is
\* not None.
C8_RagNeedsCorpus ==
    \A r \in Requests :
        InRag(r) => (Truthy(DOCUMENTS) /\ DOC_EMBEDDINGS # None)

C8_Witness ==
    \E r \in Requests :
        /\ requests[r].pc = "invoke"
        /\ startup_outcome = "ok"
        /\ \E o \in Requests : o # r /\ InRag(o)

NumDocs == IF DOCUMENTS = None THEN 0 ELSE Len(DOCUMENTS[1])
NumRows == IF DOC_EMBEDDINGS = None THEN 0 ELSE Len(DOC_EMBEDDINGS[1])

\* C9: in every state in which requests are served the number of embedding
\* rows equals the number of documents (None counting as no rows).
C9_CorpusAligned == phase = "serving" => NumRows = NumDocs

\* C10: once requests are served, no step assigns DOCUMENTS, DOC_EMBEDDINGS,
\* the embeddings model singleton or the llm singleton.
C10_NoSharedWrites ==
    [][phase = "serving" =>
          UNCHANGED <<DOCUMENTS, DOC_EMBEDDINGS, embeddings_model, llm>>]_vars

\* C10 as amended: once requests are served, no step assigns DOCUMENTS,
\* DOC_EMBEDDINGS or the embeddings model singleton, and llm is assigned only
\* by get_llm in an /ask request whose test found llm to be None.
C10_OnlyLazyLlmWrite ==
    [][phase = "serving" =>
          /\ UNCHANGED <<DOCUMENTS, DOC_EMBEDDINGS, embeddings_model>>
          /\ llm' # llm =>
                \E r \in Requests :
                    /\ requests[r].route = "/ask"
                    /\ requests[r].pc = "get_llm"
                    /\ requests[r].llm_seen = None
                    /\ llm' = Some(r)]_vars

C10_Witness ==
    \E r, o \in Requests :
        /\ r # o
        /\ llm = Some(r)
        /\ requests[o].pc = "get_llm"

===========================================================================
